---------------------------- MODULE Spec2Model ----------------------------
(***************************************************************************)
(* ic-use-actor: the actor hook lifecycle (createActorHook), its           *)
(* initialization promise, authenticate / setInterceptors / reset /        *)
(* clearError, and the module-level hook registry.                         *)
(*                                                                         *)
(* Cooperative scheduling: every action is one run-to-completion segment   *)
(* of the code, from a call or the resumption of an await up to the next   *)
(* await or the return.                                                    *)
(***************************************************************************)
EXTENDS Integers, FiniteSets, Sequences, TLC

\* ------------------------------------------------------------------ bounds
MaxHooks == 2
MaxResets == 1
MaxCallers == 2

\* ------------------------------------------------------------------ inputs
CanisterIds == {"canisterA", "canisterB"}
Identities == {"identityA"}
\* An InterceptorOptions value: each of the four callbacks is absent, a
\* function returning its value ("sync") or a function returning a promise of
\* it ("async"); `supplied` is false for undefined.
HandlerKinds == {"absent", "sync", "async"}
NoInterceptors ==
    [supplied |-> FALSE, onRequest |-> "absent", onResponse |-> "absent",
     onRequestError |-> "absent", onResponseError |-> "absent"]
\* every value createInterceptorProxy can be handed
AllInterceptorOptions ==
    {NoInterceptors} \cup
    [supplied : {TRUE}, onRequest : HandlerKinds, onResponse : HandlerKinds,
     onRequestError : HandlerKinds, onResponseError : HandlerKinds]
\* the values a caller may hand to setInterceptors
InterceptorOptions ==
    {[supplied |-> TRUE, onRequest |-> "sync", onResponse |-> "absent",
      onRequestError |-> "absent", onResponseError |-> "absent"],
     [supplied |-> TRUE, onRequest |-> "absent", onResponse |-> "sync",
      onRequestError |-> "absent", onResponseError |-> "sync"]}

\* ------------------------------------------------------------------ values
\* `undefined` as an actor reference
Undefined == [hook |-> 0, run |-> 0, layers |-> << >>]
\* `undefined` as an error
NoError == [kind |-> "none", run |-> 0]
\* the identity of a new HttpAgent, and the absence of an agent
Anonymous == "anonymous"
NoAgent == "no agent"

\* a promise that has not been settled
Pending == [st |-> "pending", actor |-> Undefined, err |-> NoError]
Fulfilled(a) == [st |-> "fulfilled", actor |-> a, err |-> NoError]
Rejected(e) == [st |-> "rejected", actor |-> Undefined, err |-> e]

\* A promise reference: id > 0 is the promise made by the id-th
\* `new Promise(...)` of the hook, id = 0 a promise born settled
\* (Promise.resolve / Promise.reject / the result of an async function).
Deferred(id) == [id |-> id, settled |-> Pending]
Settled(o) == [id |-> 0, settled |-> o]

\* no ensureAllInitialized / authenticateAll call is in flight
NoCall == [active |-> FALSE, items |-> << >>]

\* no method of a proxied actor is being called
NoWrappedCall == [pc |-> "idle"]

VARIABLES
    nextHookId,             \* let nextHookId = 1
    hookRegistry,           \* hookRegistry: id -> canisterId of the RegistryItem
    _actor,                 \* let _actor, per hook
    context,                \* store.context, per hook
    initializationPromise,  \* per hook: the promise reference
    initializationResolve,  \* per hook: id of the promise the resolver settles
    initializationReject,   \* per hook: id of the promise the rejecter settles
    promises,               \* per hook: state of each `new Promise`
    runs,                   \* per hook: initializeActor invocations suspended at await
    runsStarted,            \* per hook: number of initializeActor invocations so far
    resets,                 \* per hook: number of reset() calls so far
    agentIdentity,          \* per hook: identity held by the agent of _actor
    authCalls,              \* per hook: authenticate invocations suspended at await
    waiters,                \* per hook: how many callers of ensureInitialized await each promise
    ensureAllItems,         \* ensureAllInitialized in flight: the promises it awaits
    authenticateAllResults, \* authenticateAll in flight: the authenticate call per item
    preResetRun,            \* per hook: the initializeActor invocation that made the actor
                            \* getActor() returned when reset() was last called, 0 if none
    wrapped                 \* the call of a method of a proxied actor that is in progress

vars == <<nextHookId, hookRegistry, _actor, context, initializationPromise,
          initializationResolve, initializationReject, promises, runs,
          runsStarted, resets, agentIdentity, authCalls, waiters, preResetRun,
          ensureAllItems, authenticateAllResults, wrapped>>

Hooks == DOMAIN hookRegistry

\* ------------------------------------------------------------------ store
\* createStore({ context: {...} })
InitialContext ==
    [actor |-> Undefined, status |-> "initializing", error |-> NoError,
     isAuthenticated |-> FALSE]

\* mutant: on.reset keeps the error
StoreResetKeepsError(ctx) ==
    [actor |-> Undefined, status |-> "initializing", error |-> ctx.error,
     isAuthenticated |-> FALSE]

\* mutant: on.reset keeps the actor the store exposes
StoreResetKeepsActor(ctx) ==
    [actor |-> ctx.actor, status |-> "initializing", error |-> NoError,
     isAuthenticated |-> FALSE]

\* on.reset
StoreReset(ctx) ==
    [actor |-> Undefined, status |-> "initializing", error |-> NoError,
     isAuthenticated |-> FALSE]

\* ------------------------------------------------------------------ promises
\* the state of the promise a reference denotes
StateOf(h, ref) == IF ref.id = 0 THEN ref.settled ELSE promises[h][ref.id]

\* calling a resolver / rejecter: a promise is settled at most once
Settle(ps, id, o) ==
    IF id \in DOMAIN ps /\ ps[id].st = "pending" THEN [ps EXCEPT ![id] = o] ELSE ps

\* ------------------------------------------------------------------ proxy
\* createInterceptorProxy(actor, interceptors): the actor itself when no
\* interceptors are given, otherwise a new Proxy layer over it
createInterceptorProxy(actor, interceptors) ==
    IF ~interceptors.supplied
    THEN actor
    ELSE [actor EXCEPT !.layers = Append(@, interceptors)]

\* ------------------------------------------------------------------ proxied calls
\* JavaScript values that pass through a proxied call
Number(n) == [type |-> "number", n |-> n]
UndefinedValue == [type |-> "undefined"]
Array(items) == [type |-> "array", items |-> items]
PromiseOf(v) == [type |-> "promise", value |-> v]
ErrorObject(class) == [type |-> "error", class |-> class]

\* the result of an async function: a promise fulfilled or rejected with a value
Resolves(v) == [st |-> "fulfilled", value |-> v]
Rejects(e) == [st |-> "rejected", value |-> e]

\* `await v`, and the resolution of an async function's return value: a
\* promise is replaced by the value it is fulfilled with
Await(v) == IF v.type = "promise" THEN v.value ELSE v

\* the actor that is wrapped, and its members: a method and a plain property
TargetActor == [hook |-> 1, run |-> 1, layers |-> << >>]
Members == [echo |-> [type |-> "function"], canisterName |-> [type |-> "string"]]
MethodNames == {prop \in DOMAIN Members : Members[prop].type = "function"}

\* the inputs of a call: the argument lists, and what the canister method does
ArgLists == {<< >>, <<5>>, <<1, 2>>}
MethodOutcomes == {"returns", "TypeError", "Error"}

\* the canister method echo(x): it returns x, or fails
Echo(argList) == IF Len(argList) > 0 THEN Number(argList[1]) ELSE UndefinedValue
Method(outcome, argList) ==
    IF outcome = "returns" THEN Resolves(Echo(argList)) ELSE Rejects(ErrorObject(outcome))

\* the callbacks a caller supplies: onRequest doubles the first argument,
\* onResponse marks the response, the error callbacks return a replacement
OnRequestHandler(data) ==
    Array([i \in DOMAIN data.args.items |->
            IF i = 1 THEN 2 * data.args.items[i] ELSE data.args.items[i]])
OnResponseHandler(data) == [type |-> "object", by |-> "onResponse", of |-> data.response]
OnRequestErrorHandler(data) == [type |-> "error", class |-> "replacement", by |-> "onRequestError"]
OnResponseErrorHandler(data) == [type |-> "error", class |-> "replacement", by |-> "onResponseError"]

\* what a callback of the given kind returns for the value v it computes
Return(kind, v) == IF kind = "async" THEN PromiseOf(v) ELSE v

\* mutant: the proxy wraps every member
ProxyGetWrapsAll(proxy, prop) ==
    IF proxy.layers = << >>
    THEN Members[prop]
    ELSE [type |-> "function", wraps |-> prop]

\* the get trap: Reflect.get(target, prop, receiver), wrapped if it is a function
ProxyGet(proxy, prop) ==
    IF proxy.layers = << >>
    THEN Members[prop]
    ELSE IF Members[prop].type = "function"
    THEN [type |-> "function", wraps |-> prop]
    ELSE Members[prop]

\* `args` after `if (interceptors.onRequest) { args = interceptors.onRequest(...) }`
RequestArgs(interceptors, methodName, args) ==
    IF interceptors.onRequest # "absent"
    THEN Return(interceptors.onRequest,
                OnRequestHandler([methodName |-> methodName, args |-> args]))
    ELSE args

\* originalProperty.apply(target, args): the argument list made of an
\* array-like; an object without length, such as a promise, gives no arguments
ArgumentsList(args) == IF args.type = "array" THEN args.items ELSE << >>

\* mutant: the response is returned without consulting onResponse
AfterResponseIgnoresOnResponse(interceptors, methodName, args, response) ==
    Resolves(response)

\* the try block after `await originalProperty.apply(target, args)` returned
AfterResponse(interceptors, methodName, args, response) ==
    IF interceptors.onResponse # "absent"
    THEN Resolves(Await(Return(interceptors.onResponse,
            OnResponseHandler([methodName |-> methodName, args |-> args,
                               response |-> response]))))
    ELSE Resolves(response)

\* mutant: the two error callbacks are swapped
ConsultedSwapped(interceptors, error) ==
    IF error.class = "TypeError"
    THEN IF interceptors.onResponseError # "absent" THEN "onResponseError" ELSE "none"
    ELSE IF interceptors.onRequestError # "absent" THEN "onRequestError" ELSE "none"

\* the error callback the catch block consults, "none" if it is not configured
Consulted(interceptors, error) ==
    IF error.class = "TypeError"
    THEN IF interceptors.onRequestError # "absent" THEN "onRequestError" ELSE "none"
    ELSE IF interceptors.onResponseError # "absent" THEN "onResponseError" ELSE "none"

\* mutant: what the error callback returns is returned instead of thrown
AfterErrorSwallows(interceptors, methodName, args, error) ==
    LET data == [methodName |-> methodName, args |-> args, error |-> error] IN
    IF Consulted(interceptors, error) = "onRequestError"
    THEN Resolves(Return(interceptors.onRequestError, OnRequestErrorHandler(data)))
    ELSE IF Consulted(interceptors, error) = "onResponseError"
    THEN Resolves(Return(interceptors.onResponseError, OnResponseErrorHandler(data)))
    ELSE Rejects(error)

\* the catch block: `error` is replaced by what the callback returns, then thrown
AfterError(interceptors, methodName, args, error) ==
    LET data == [methodName |-> methodName, args |-> args, error |-> error] IN
    IF Consulted(interceptors, error) = "onRequestError"
    THEN Rejects(Return(interceptors.onRequestError, OnRequestErrorHandler(data)))
    ELSE IF Consulted(interceptors, error) = "onResponseError"
    THEN Rejects(Return(interceptors.onResponseError, OnResponseErrorHandler(data)))
    ELSE Rejects(error)

\* the call of a method through `proxy`, made with `interceptors`, up to
\* `await originalProperty.apply(target, args)`; an actor without proxy has its
\* method called directly
Invocation(proxy, interceptors, methodName, args, outcome) ==
    LET requestArgs == IF proxy.layers = << >> THEN args
                       ELSE RequestArgs(interceptors, methodName, args)
    IN
    [pc |-> "awaiting", interceptors |-> interceptors, proxy |-> proxy,
     methodName |-> methodName, args |-> args, requestArgs |-> requestArgs,
     outcome |-> outcome,
     invoked |->
        (IF proxy.layers # << >> /\ interceptors.onRequest # "absent"
         THEN <<[fn |-> "onRequest",
                 data |-> [methodName |-> methodName, args |-> args]]>>
         ELSE << >>)
        \o <<[fn |-> methodName, data |-> ArgumentsList(requestArgs)]>>,
     result |-> Resolves(UndefinedValue)]

\* a method of createInterceptorProxy(TargetActor, interceptors) is called
WrappedCall(interceptors, methodName, args, outcome) ==
    /\ wrapped.pc = "idle"
    /\ wrapped' = Invocation(createInterceptorProxy(TargetActor, interceptors),
                             interceptors, methodName, args, outcome)
    /\ UNCHANGED <<nextHookId, hookRegistry, _actor, context, initializationPromise,
                   initializationResolve, initializationReject, promises, runs,
                   runsStarted, resets, agentIdentity, authCalls, waiters, preResetRun,
                   ensureAllItems, authenticateAllResults>>

\* the interceptors of the proxy the store exposes, none for the raw actor
InterceptorsOf(actor) ==
    IF actor.layers = << >> THEN NoInterceptors ELSE actor.layers[Len(actor.layers)]

\* a consumer calls a method of the actor useActor() / getActor() hands out
ActorCall(h, methodName, args, outcome) ==
    /\ wrapped.pc = "idle"
    /\ context[h].actor # Undefined
    /\ wrapped' = Invocation(context[h].actor, InterceptorsOf(context[h].actor),
                             methodName, args, outcome)
    /\ UNCHANGED <<nextHookId, hookRegistry, _actor, context, initializationPromise,
                   initializationResolve, initializationReject, promises, runs,
                   runsStarted, resets, agentIdentity, authCalls, waiters, preResetRun,
                   ensureAllItems, authenticateAllResults>>

\* mutant: the wrapper records the failure of a call in the store of the hook
WrappedCallResumedRecordsError ==
    /\ wrapped.pc = "awaiting"
    /\ LET settled == Method(wrapped.outcome, ArgumentsList(wrapped.requestArgs)) IN
        /\ wrapped' = [wrapped EXCEPT !.pc = "settled", !.result = settled]
        /\ context' = [h \in DOMAIN context |->
                IF settled.st = "rejected"
                THEN [context[h] EXCEPT !.status = "error", !.error = [kind |-> "call", run |-> 0]]
                ELSE context[h]]
    /\ UNCHANGED <<nextHookId, hookRegistry, _actor, initializationPromise,
                   initializationResolve, initializationReject, promises, runs,
                   runsStarted, resets, agentIdentity, authCalls, waiters, preResetRun,
                   ensureAllItems, authenticateAllResults>>

\* the promise of the canister method settles and the wrapper runs to its end
WrappedCallResumed ==
    /\ wrapped.pc = "awaiting"
    /\ LET w == wrapped
           settled == Method(w.outcome, ArgumentsList(w.requestArgs))
           data == [methodName |-> w.methodName, args |-> w.requestArgs]
       IN
        wrapped' =
            IF w.proxy.layers = << >>
            THEN [w EXCEPT !.pc = "settled", !.result = settled]
            ELSE IF settled.st = "fulfilled"
            THEN [w EXCEPT
                    !.pc = "settled",
                    !.result = AfterResponse(w.interceptors, w.methodName,
                                             w.requestArgs, settled.value),
                    !.invoked = IF w.interceptors.onResponse # "absent"
                                THEN Append(@, [fn |-> "onResponse",
                                                data |-> data @@ [response |-> settled.value]])
                                ELSE @]
            ELSE [w EXCEPT
                    !.pc = "settled",
                    !.result = AfterError(w.interceptors, w.methodName,
                                          w.requestArgs, settled.value),
                    !.invoked = IF Consulted(w.interceptors, settled.value) # "none"
                                THEN Append(@, [fn |-> Consulted(w.interceptors, settled.value),
                                                data |-> data @@ [error |-> settled.value]])
                                ELSE @]
    /\ UNCHANGED <<nextHookId, hookRegistry, _actor, context, initializationPromise,
                   initializationResolve, initializationReject, promises, runs,
                   runsStarted, resets, agentIdentity, authCalls, waiters, preResetRun,
                   ensureAllItems, authenticateAllResults>>

\* the caller has received the outcome; calls are independent of one another
WrappedCallReturned ==
    /\ wrapped.pc = "settled"
    /\ wrapped' = NoWrappedCall
    /\ UNCHANGED <<nextHookId, hookRegistry, _actor, context, initializationPromise,
                   initializationResolve, initializationReject, promises, runs,
                   runsStarted, resets, agentIdentity, authCalls, waiters, preResetRun,
                   ensureAllItems, authenticateAllResults>>

\* ------------------------------------------------------------------ initializeActor
\* store.send({ type: "setState", status: "initializing" })
InitializeActorBegin(ctx) == [ctx EXCEPT !.status = "initializing"]

\* mutant: the success setState leaves the actor out
InitializeActorSuccessWithoutActor(ctx, a) ==
    [ctx EXCEPT !.status = "success", !.error = NoError, !.isAuthenticated = FALSE]

\* mutant: the success setState leaves the authenticated flag as it is
InitializeActorSuccessKeepsAuthenticated(ctx, a) ==
    [ctx EXCEPT !.actor = a, !.status = "success", !.error = NoError]

\* store.send({ actor: _actor, status: "success", error: undefined, isAuthenticated: false })
InitializeActorSuccess(ctx, a) ==
    [ctx EXCEPT !.actor = a, !.status = "success", !.error = NoError,
                !.isAuthenticated = FALSE]

\* mutant: the catch block records the error and leaves the status alone
InitializeActorFailureKeepsStatus(ctx, e) == [ctx EXCEPT !.error = e]

\* store.send({ status: "error", error: err })
InitializeActorFailure(ctx, e) == [ctx EXCEPT !.status = "error", !.error = e]

\* mutant: the actor object is created once per hook and reused by later runs
ActorOfReused(h, r) == [hook |-> h, run |-> 1, layers |-> << >>]

\* the actor and the error the r-th initializeActor invocation of hook h makes
ActorOf(h, r) == [hook |-> h, run |-> r, layers |-> << >>]
InitError(r) == [kind |-> "init", run |-> r]

\* createInitializationPromise(): the id of the promise it makes
NewPromiseId(h) == Cardinality(DOMAIN promises[h]) + 1

\* mutant: registering a hook replaces the registry by the new entry
createActorHookReplacesRegistry(canisterId) ==
    /\ nextHookId <= MaxHooks
    /\ LET h == nextHookId IN
        /\ nextHookId' = nextHookId + 1
        /\ _actor' = (h :> Undefined) @@ _actor
        /\ promises' = (h :> (1 :> Pending)) @@ promises
        /\ initializationPromise' = (h :> Deferred(1)) @@ initializationPromise
        /\ initializationResolve' = (h :> 1) @@ initializationResolve
        /\ initializationReject' = (h :> 1) @@ initializationReject
        /\ context' = (h :> InitializeActorBegin(InitialContext)) @@ context
        /\ runs' = (h :> {1}) @@ runs
        /\ runsStarted' = (h :> 1) @@ runsStarted
        /\ resets' = (h :> 0) @@ resets
        /\ agentIdentity' = (h :> NoAgent) @@ agentIdentity
        /\ authCalls' = (h :> {}) @@ authCalls
        /\ waiters' = (h :> (1 :> 0)) @@ waiters
        /\ preResetRun' = (h :> 0) @@ preResetRun
        /\ UNCHANGED <<ensureAllItems, wrapped, authenticateAllResults>>
        /\ hookRegistry' = (h :> canisterId)

\* ------------------------------------------------------------------ createActorHook
createActorHook(canisterId) ==
    /\ nextHookId <= MaxHooks
    /\ LET h == nextHookId IN
        /\ nextHookId' = nextHookId + 1
        /\ _actor' = (h :> Undefined) @@ _actor
        /\ promises' = (h :> (1 :> Pending)) @@ promises
        /\ initializationPromise' = (h :> Deferred(1)) @@ initializationPromise
        /\ initializationResolve' = (h :> 1) @@ initializationResolve
        /\ initializationReject' = (h :> 1) @@ initializationReject
        /\ context' = (h :> InitializeActorBegin(InitialContext)) @@ context
        /\ runs' = (h :> {1}) @@ runs
        /\ runsStarted' = (h :> 1) @@ runsStarted
        /\ resets' = (h :> 0) @@ resets
        /\ agentIdentity' = (h :> NoAgent) @@ agentIdentity
        /\ authCalls' = (h :> {}) @@ authCalls
        /\ waiters' = (h :> (1 :> 0)) @@ waiters
        /\ preResetRun' = (h :> 0) @@ preResetRun
        /\ UNCHANGED <<ensureAllItems, wrapped, authenticateAllResults>>
        /\ hookRegistry' = (h :> canisterId) @@ hookRegistry

\* initializeActor resumes after `await HttpAgent.create(...)` and
\* Actor.createActor returns
InitializeActorResolved(h, r) ==
    /\ r \in runs[h]
    /\ LET a == ActorOf(h, r) IN
        /\ _actor' = [_actor EXCEPT ![h] = a]
        /\ agentIdentity' = [agentIdentity EXCEPT ![h] = Anonymous]
        /\ context' = [context EXCEPT ![h] = InitializeActorSuccess(@, a)]
        /\ promises' = [promises EXCEPT ![h] = Settle(@, initializationResolve[h], Fulfilled(a))]
        /\ initializationPromise' = [initializationPromise EXCEPT ![h] = Settled(Fulfilled(a))]
    /\ runs' = [runs EXCEPT ![h] = @ \ {r}]
    /\ UNCHANGED <<ensureAllItems, wrapped, authenticateAllResults, preResetRun, nextHookId, hookRegistry, initializationResolve,
                   initializationReject,
                   runsStarted, resets, authCalls, waiters>>

\* initializeActor resumes in its catch block: HttpAgent.create rejected or
\* Actor.createActor threw
InitializeActorRejected(h, r) ==
    /\ r \in runs[h]
    /\ LET err == InitError(r) IN
        /\ context' = [context EXCEPT ![h] = InitializeActorFailure(@, err)]
        /\ promises' = [promises EXCEPT ![h] = Settle(@, initializationReject[h], Rejected(err))]
        /\ initializationPromise' = [initializationPromise EXCEPT ![h] = Settled(Rejected(err))]
    /\ runs' = [runs EXCEPT ![h] = @ \ {r}]
    /\ UNCHANGED <<ensureAllItems, wrapped, authenticateAllResults, preResetRun, nextHookId, hookRegistry, _actor, agentIdentity, initializationResolve,
                   initializationReject, runsStarted, resets, authCalls, waiters>>

\* ------------------------------------------------------------------ ensureInitialized
\* mutant: ensureInitialized hands out the initializationPromise whatever the status
ensureInitializedReturnsPromise(h) == initializationPromise[h]

\* mutant: a cleared error counts as a recovery
ensureInitializedAfterClearError(h) ==
    IF context[h].status = "error" /\ context[h].error # NoError
    THEN Settled(Rejected(context[h].error))
    ELSE IF context[h].status # "initializing"
    THEN Settled(Fulfilled(context[h].actor))
    ELSE initializationPromise[h]

\* the promise ensureInitialized() returns, decided on the status at call time
ensureInitialized(h) ==
    IF context[h].status = "error"
    THEN Settled(Rejected(IF context[h].error = NoError
                          THEN [kind |-> "Initialization failed", run |-> 0]
                          ELSE context[h].error))
    ELSE IF context[h].status # "initializing"
    THEN Settled(Fulfilled(context[h].actor))
    ELSE initializationPromise[h]

\* the number of callers awaiting a promise of hook h
RECURSIVE Waiting(_, _)
Waiting(h, ids) ==
    IF ids = {} THEN 0
    ELSE LET id == CHOOSE x \in ids : TRUE IN waiters[h][id] + Waiting(h, ids \ {id})

\* the calls of hook h that are suspended at an await
Callers(h) == Waiting(h, DOMAIN waiters[h]) + Cardinality(authCalls[h])

\* mutant: ensureInitialized starts another initialization for each caller
EnsureInitializedCallStartsRun(h) ==
    LET p == ensureInitialized(h) IN
    /\ StateOf(h, p).st = "pending"
    /\ Callers(h) < MaxCallers
    /\ waiters' = [waiters EXCEPT ![h][p.id] = @ + 1]
    /\ runs' = [runs EXCEPT ![h] = @ \cup {runsStarted[h] + 1}]
    /\ runsStarted' = [runsStarted EXCEPT ![h] = @ + 1]
    /\ UNCHANGED <<ensureAllItems, wrapped, authenticateAllResults, preResetRun, nextHookId, hookRegistry, _actor, context, initializationPromise,
                   initializationResolve, initializationReject, promises,
                   resets, agentIdentity, authCalls>>

\* A caller outside the hook calls ensureInitialized() and is handed a pending
\* promise, which it awaits. (A call that is handed a settled promise changes
\* nothing: its outcome is StateOf(h, ensureInitialized(h)).)
EnsureInitializedCall(h) ==
    LET p == ensureInitialized(h) IN
    /\ StateOf(h, p).st = "pending"
    /\ Callers(h) < MaxCallers
    /\ waiters' = [waiters EXCEPT ![h][p.id] = @ + 1]
    /\ UNCHANGED <<ensureAllItems, wrapped, authenticateAllResults, preResetRun, nextHookId, hookRegistry, _actor, context, initializationPromise,
                   initializationResolve, initializationReject, promises, runs,
                   runsStarted, resets, agentIdentity, authCalls>>

\* an awaited promise is settled: one of its callers receives the outcome
EnsureInitializedSettled(h, id) ==
    /\ waiters[h][id] > 0
    /\ promises[h][id].st # "pending"
    /\ waiters' = [waiters EXCEPT ![h][id] = @ - 1]
    /\ UNCHANGED <<ensureAllItems, wrapped, authenticateAllResults, preResetRun, nextHookId, hookRegistry, _actor, context, initializationPromise,
                   initializationResolve, initializationReject, promises, runs,
                   runsStarted, resets, agentIdentity, authCalls>>

\* ------------------------------------------------------------------ authenticate
\* what the agent lookup and the identity replacement can do
AgentOutcomes == {"ok", "No agent found for actor", "replaceIdentity failed"}

\* mutant: authenticating hands out the unwrapped actor again
AuthenticateSuccessRecreatesActor(ctx) ==
    [ctx EXCEPT !.isAuthenticated = TRUE, !.error = NoError,
                !.actor = [@ EXCEPT !.layers = << >>]]

\* store.send({ isAuthenticated: true, error: undefined })
AuthenticateSuccess(ctx) == [ctx EXCEPT !.isAuthenticated = TRUE, !.error = NoError]

\* mutant: the catch block records the error and leaves the status alone
AuthenticateFailureKeepsStatus(ctx, e) == [ctx EXCEPT !.error = e]

\* mutant: the catch block also clears the authenticated flag
AuthenticateFailureClearsAuthenticated(ctx, e) ==
    [ctx EXCEPT !.status = "error", !.error = e, !.isAuthenticated = FALSE]

\* store.send({ status: "error", error: err })
AuthenticateFailure(ctx, e) == [ctx EXCEPT !.status = "error", !.error = e]

\* `await ensureInitialized()` as a statement: the value a fulfilled promise
\* carries is dropped
Discarding(p) ==
    IF p.id = 0 /\ p.settled.st = "fulfilled" THEN Settled(Fulfilled(Undefined)) ELSE p

\* authenticate(identity) up to `await ensureInitialized()`
AuthenticateCall(h, identity) ==
    /\ Callers(h) < MaxCallers
    /\ authCalls' = [authCalls EXCEPT ![h] = @ \cup
            {[identity |-> identity, awaited |-> Discarding(ensureInitialized(h))]}]
    /\ UNCHANGED <<ensureAllItems, wrapped, authenticateAllResults, preResetRun, nextHookId, hookRegistry, _actor, context, initializationPromise,
                   initializationResolve, initializationReject, promises, runs,
                   runsStarted, resets, agentIdentity, waiters>>

\* the error authenticate ends in, NoError when it attaches the identity
AuthenticateError(h, c, agent) ==
    IF StateOf(h, c.awaited).st = "rejected" THEN StateOf(h, c.awaited).err
    ELSE IF _actor[h] = Undefined THEN [kind |-> "No actor found", run |-> 0]
    ELSE IF agent # "ok" THEN [kind |-> agent, run |-> 0]
    ELSE NoError

\* how the promise authenticate returned is settled: fulfilled with undefined, or
\* rejected by `throw err`
AuthenticateReturn(h, c, agent) ==
    IF AuthenticateError(h, c, agent) = NoError
    THEN Fulfilled(Undefined)
    ELSE Rejected(AuthenticateError(h, c, agent))

\* Promise.allSettled(items.map((it) => it.authenticate(identity))): the promise
\* authenticate call c of hook h returned is settled with outcome o
Collect(results, h, c, o) ==
    IF /\ results.active
       /\ h \in DOMAIN results.items
       /\ results.items[h].call = c
       /\ results.items[h].outcome = Pending
    THEN [results EXCEPT !.items[h].outcome = o]
    ELSE results

\* authenticate resumes after `await ensureInitialized()` and runs to its end
AuthenticateResumed(h, c, agent) ==
    /\ c \in authCalls[h]
    /\ StateOf(h, c.awaited).st # "pending"
    /\ LET err == AuthenticateError(h, c, agent) IN
        IF err = NoError
        THEN /\ agentIdentity' = [agentIdentity EXCEPT ![h] = c.identity]
             /\ context' = [context EXCEPT ![h] = AuthenticateSuccess(@)]
        ELSE /\ context' = [context EXCEPT ![h] = AuthenticateFailure(@, err)]
             /\ UNCHANGED agentIdentity
    /\ authenticateAllResults' =
            Collect(authenticateAllResults, h, c, AuthenticateReturn(h, c, agent))
    /\ authCalls' = [authCalls EXCEPT ![h] = @ \ {c}]
    /\ UNCHANGED <<ensureAllItems, wrapped, preResetRun, nextHookId, hookRegistry, _actor, initializationPromise,
                   initializationResolve, initializationReject, promises, runs,
                   runsStarted, resets, waiters>>

\* ------------------------------------------------------------------ setInterceptors
\* store.send({ status: "error", error })
SetInterceptorsFailure(ctx, e) == [ctx EXCEPT !.status = "error", !.error = e]

\* mutant: the catch block rethrows
SetInterceptorsReturnRethrows(h, interceptors) ==
    IF _actor[h] = Undefined
    THEN Rejected([kind |-> "No actor found", run |-> 0])
    ELSE Fulfilled(Undefined)

\* what setInterceptors hands to its caller: the catch block does not rethrow
SetInterceptorsReturn(h, interceptors) == Fulfilled(Undefined)

\* mutant: installing interceptors also clears the error
SetInterceptorsSuccessClearsError(ctx, proxiedActor) ==
    [ctx EXCEPT !.actor = proxiedActor, !.error = NoError]

\* store.send({ actor: proxiedActor })
SetInterceptorsSuccess(ctx, proxiedActor) == [ctx EXCEPT !.actor = proxiedActor]

\* mutant: the new proxy wraps the actor the store exposes
setInterceptorsStacks(h, interceptors) ==
    /\ context' = [context EXCEPT ![h] =
            IF _actor[h] = Undefined
            THEN SetInterceptorsFailure(@, [kind |-> "No actor found", run |-> 0])
            ELSE SetInterceptorsSuccess(@, createInterceptorProxy(context[h].actor, interceptors))]
    /\ UNCHANGED <<ensureAllItems, wrapped, authenticateAllResults, preResetRun, nextHookId, hookRegistry, _actor, initializationPromise,
                   initializationResolve, initializationReject, promises, runs,
                   runsStarted, resets, agentIdentity, authCalls, waiters>>

\* useActor().setInterceptors

setInterceptors(h, interceptors) ==
    /\ context' = [context EXCEPT ![h] =
            IF _actor[h] = Undefined
            THEN SetInterceptorsFailure(@, [kind |-> "No actor found", run |-> 0])
            ELSE SetInterceptorsSuccess(@, createInterceptorProxy(_actor[h], interceptors))]
    /\ UNCHANGED <<ensureAllItems, wrapped, authenticateAllResults, preResetRun, nextHookId, hookRegistry, _actor, initializationPromise,
                   initializationResolve, initializationReject, promises, runs,
                   runsStarted, resets, agentIdentity, authCalls, waiters>>

\* ------------------------------------------------------------------ reset, clearError
\* useActor().reset
reset(h) ==
    /\ resets[h] < MaxResets
    /\ _actor' = [_actor EXCEPT ![h] = Undefined]
    /\ LET id == NewPromiseId(h) IN
        /\ waiters' = [waiters EXCEPT ![h] = (id :> 0) @@ @]
        /\ promises' = [promises EXCEPT ![h] = (id :> Pending) @@ @]
        /\ initializationPromise' = [initializationPromise EXCEPT ![h] = Deferred(id)]
        /\ initializationResolve' = [initializationResolve EXCEPT ![h] = id]
        /\ initializationReject' = [initializationReject EXCEPT ![h] = id]
    /\ context' = [context EXCEPT ![h] = InitializeActorBegin(StoreReset(@))]
    /\ runs' = [runs EXCEPT ![h] = @ \cup {runsStarted[h] + 1}]
    /\ runsStarted' = [runsStarted EXCEPT ![h] = @ + 1]
    /\ resets' = [resets EXCEPT ![h] = @ + 1]
    /\ agentIdentity' = [agentIdentity EXCEPT ![h] = NoAgent]
    /\ UNCHANGED <<nextHookId, hookRegistry, authCalls, ensureAllItems, wrapped, authenticateAllResults>>
    /\ preResetRun' = [preResetRun EXCEPT ![h] = context[h].actor.run]

\* mutant: clearing the error also leaves the error status
clearErrorRecovers(h) ==
    /\ context' = [context EXCEPT ![h] = [@ EXCEPT !.error = NoError, !.status = "success"]]
    /\ UNCHANGED <<ensureAllItems, wrapped, authenticateAllResults, preResetRun, nextHookId, hookRegistry, _actor, initializationPromise,
                   initializationResolve, initializationReject, promises, runs,
                   runsStarted, resets, agentIdentity, authCalls, waiters>>

\* mutant: one store shared by all hooks
clearErrorSharedStore(h) ==
    /\ context' = [g \in DOMAIN context |-> [context[g] EXCEPT !.error = NoError]]
    /\ UNCHANGED <<ensureAllItems, wrapped, authenticateAllResults, preResetRun, nextHookId, hookRegistry, _actor, initializationPromise,
                   initializationResolve, initializationReject, promises, runs,
                   runsStarted, resets, agentIdentity, authCalls, waiters>>

\* useActor().clearError
clearError(h) ==
    /\ context' = [context EXCEPT ![h].error = NoError]
    /\ UNCHANGED <<ensureAllItems, wrapped, authenticateAllResults, preResetRun, nextHookId, hookRegistry, _actor, initializationPromise,
                   initializationResolve, initializationReject, promises, runs,
                   runsStarted, resets, agentIdentity, authCalls, waiters>>

\* ------------------------------------------------------------------ registry helpers
\* filterCanisterIds: absent, or an array of canister ids (possibly empty)
Filters ==
    {[absent |-> TRUE, ids |-> {}]} \cup {[absent |-> FALSE, ids |-> S] : S \in SUBSET CanisterIds}

\* ensureAllInitialized() up to `await Promise.all(...)`: ensureInitialized is
\* called on every item of the registry
EnsureAllInitializedCall ==
    /\ ~ensureAllItems.active
    /\ ensureAllItems' = [active |-> TRUE, items |-> [h \in Hooks |-> ensureInitialized(h)]]
    /\ UNCHANGED <<nextHookId, hookRegistry, _actor, context, initializationPromise,
                   initializationResolve, initializationReject, promises, runs,
                   runsStarted, resets, agentIdentity, waiters, preResetRun,
                   authCalls, authenticateAllResults, wrapped>>

\* mutant: the combined wait settles like Promise.allSettled, it resolves once
\* every item has settled
EnsureAllInitializedReturnAllSettled(items) ==
    IF \A h \in DOMAIN items : StateOf(h, items[h]).st # "pending"
    THEN {Fulfilled(Undefined)}
    ELSE {}

\* Promise.all over the promises of a call: the outcomes it can settle with now
\* (a rejection of one of the rejected items, else fulfilment once all are
\* fulfilled, else none yet)
EnsureAllInitializedReturn(items) ==
    LET rejected == {h \in DOMAIN items : StateOf(h, items[h]).st = "rejected"} IN
    IF rejected # {}
    THEN {Rejected(StateOf(h, items[h]).err) : h \in rejected}
    ELSE IF \A h \in DOMAIN items : StateOf(h, items[h]).st = "fulfilled"
    THEN {Fulfilled(Undefined)}
    ELSE {}

\* ensureAllInitialized resumes after the await and settles with outcome o
EnsureAllInitializedSettled(o) ==
    /\ ensureAllItems.active
    /\ o \in EnsureAllInitializedReturn(ensureAllItems.items)
    /\ ensureAllItems' = NoCall
    /\ UNCHANGED <<nextHookId, hookRegistry, _actor, context, initializationPromise,
                   initializationResolve, initializationReject, promises, runs,
                   runsStarted, resets, agentIdentity, waiters, preResetRun,
                   authCalls, authenticateAllResults, wrapped>>

\* mutant: the filter is ignored, every registered hook is selected
TargetedIgnoresFilter(filterCanisterIds) == Hooks

\* Array.from(hookRegistry.values()).filter(...)
Targeted(filterCanisterIds) ==
    {h \in Hooks : filterCanisterIds.absent \/ hookRegistry[h] \in filterCanisterIds.ids}

\* authenticateAll(identity, filterCanisterIds) up to `await Promise.allSettled(...)`:
\* authenticate is called on every targeted item and runs up to its own await
AuthenticateAllCall(identity, filterCanisterIds) ==
    /\ ~authenticateAllResults.active
    /\ LET items == Targeted(filterCanisterIds)
           call(h) == [identity |-> identity, awaited |-> Discarding(ensureInitialized(h))]
       IN
        /\ \A h \in items : call(h) \notin authCalls[h]
        /\ authCalls' = [h \in Hooks |->
                IF h \in items THEN authCalls[h] \cup {call(h)} ELSE authCalls[h]]
        /\ authenticateAllResults' =
                [active |-> TRUE,
                 items |-> [h \in items |-> [call |-> call(h), outcome |-> Pending]]]
    /\ UNCHANGED <<nextHookId, hookRegistry, _actor, context, initializationPromise,
                   initializationResolve, initializationReject, promises, runs,
                   runsStarted, resets, agentIdentity, waiters, preResetRun,
                   ensureAllItems, wrapped>>

\* mutant: the aggregate error counts every targeted hook
AuthenticateAllReturnCountsAll(results) ==
    LET failed == {h \in DOMAIN results.items : results.items[h].outcome.st = "rejected"} IN
    IF failed = {}
    THEN Fulfilled(Undefined)
    ELSE Rejected([kind |-> "authenticateAll failed",
                   count |-> Cardinality(DOMAIN results.items),
                   reasons |-> [h \in failed |-> results.items[h].outcome.err]])

\* how the promise authenticateAll returned is settled: fulfilled, or rejected
\* with one Error naming the number of failed hooks and their reasons
AuthenticateAllReturn(results) ==
    LET failed == {h \in DOMAIN results.items : results.items[h].outcome.st = "rejected"} IN
    IF failed = {}
    THEN Fulfilled(Undefined)
    ELSE Rejected([kind |-> "authenticateAll failed",
                   count |-> Cardinality(failed),
                   reasons |-> [h \in failed |-> results.items[h].outcome.err]])

\* mutant: the combined wait short-circuits on the first failure
AuthenticateAllSettledShortCircuits ==
    /\ authenticateAllResults.active
    /\ \/ \A h \in DOMAIN authenticateAllResults.items :
                authenticateAllResults.items[h].outcome # Pending
       \/ \E h \in DOMAIN authenticateAllResults.items :
                authenticateAllResults.items[h].outcome.st = "rejected"
    /\ authenticateAllResults' = NoCall
    /\ UNCHANGED <<nextHookId, hookRegistry, _actor, context, initializationPromise,
                   initializationResolve, initializationReject, promises, runs,
                   runsStarted, resets, agentIdentity, waiters, preResetRun,
                   authCalls, ensureAllItems, wrapped>>

\* authenticateAll resumes once every authenticate call has settled
AuthenticateAllSettled ==
    /\ authenticateAllResults.active
    /\ \A h \in DOMAIN authenticateAllResults.items :
            authenticateAllResults.items[h].outcome # Pending
    /\ authenticateAllResults' = NoCall
    /\ UNCHANGED <<nextHookId, hookRegistry, _actor, context, initializationPromise,
                   initializationResolve, initializationReject, promises, runs,
                   runsStarted, resets, agentIdentity, waiters, preResetRun,
                   authCalls, ensureAllItems, wrapped>>

\* ------------------------------------------------------------------ specification
\* module load: `const hookRegistry = new Map()`, `let nextHookId = 1`
ModuleLoaded ==
    /\ nextHookId = 1
    /\ hookRegistry = << >>
    /\ _actor = << >>
    /\ context = << >>
    /\ initializationPromise = << >>
    /\ initializationResolve = << >>
    /\ initializationReject = << >>
    /\ promises = << >>
    /\ runs = << >>
    /\ runsStarted = << >>
    /\ resets = << >>
    /\ agentIdentity = << >>
    /\ authCalls = << >>
    /\ waiters = << >>
    /\ preResetRun = << >>
    /\ ensureAllItems = NoCall
    /\ authenticateAllResults = NoCall
    /\ wrapped = NoWrappedCall

\* One hook's lifecycle: the state right after the first createActorHook call,
\* as that action leaves it.
Init ==
    \E canisterId \in {"canisterA"} :
        /\ nextHookId = 2
        /\ hookRegistry = (1 :> canisterId)
        /\ _actor = (1 :> Undefined)
        /\ context = (1 :> InitializeActorBegin(InitialContext))
        /\ initializationPromise = (1 :> Deferred(1))
        /\ initializationResolve = (1 :> 1)
        /\ initializationReject = (1 :> 1)
        /\ promises = (1 :> (1 :> Pending))
        /\ runs = (1 :> {1})
        /\ runsStarted = (1 :> 1)
        /\ resets = (1 :> 0)
        /\ agentIdentity = (1 :> NoAgent)
        /\ authCalls = (1 :> {})
        /\ waiters = (1 :> (1 :> 0))
        /\ preResetRun = (1 :> 0)
        /\ ensureAllItems = NoCall
        /\ authenticateAllResults = NoCall
        /\ wrapped = NoWrappedCall
    /\ wrapped = NoWrappedCall

Next ==
    \/ \E h \in Hooks : \E r \in runs[h] : InitializeActorResolved(h, r)
    \/ \E h \in Hooks : \E r \in runs[h] : InitializeActorRejected(h, r)
    \/ \E h \in Hooks : EnsureInitializedCall(h)
    \/ \E h \in Hooks : \E id \in DOMAIN promises[h] : EnsureInitializedSettled(h, id)
    \/ \E h \in Hooks : \E identity \in Identities : AuthenticateCall(h, identity)
    \/ \E h \in Hooks : \E c \in authCalls[h] : \E agent \in AgentOutcomes :
            AuthenticateResumed(h, c, agent)
    \/ \E h \in Hooks : \E interceptors \in InterceptorOptions : setInterceptors(h, interceptors)
    \/ \E h \in Hooks : reset(h)
    \/ \E h \in Hooks : clearError(h)

Spec == Init /\ [][Next]_vars

\* the hook of Spec, the initializeActor invocations it can start, and the
\* authenticate calls that can be suspended on a promise made by `new Promise`
TheHook == 1
RunIds == 1 .. (MaxResets + 1)
DeferredCalls ==
    {[identity |-> identity, awaited |-> Deferred(id)] :
        identity \in Identities, id \in 1 .. (MaxResets + 1)}

\* The event loop and the network make progress: HttpAgent.create settles for
\* every initializeActor invocation, and the continuation of every await whose
\* promise has been settled is run.
Fairness ==
    /\ \A r \in RunIds :
            WF_vars(InitializeActorResolved(TheHook, r) \/ InitializeActorRejected(TheHook, r))
    /\ \A c \in DeferredCalls :
            WF_vars(\E agent \in AgentOutcomes : AuthenticateResumed(TheHook, c, agent))
    /\ WF_vars(\E c \in authCalls[TheHook] : \E agent \in AgentOutcomes :
            AuthenticateResumed(TheHook, c, agent))
    /\ WF_vars(\E id \in DOMAIN promises[TheHook] : EnsureInitializedSettled(TheHook, id))

FairSpec == Spec /\ Fairness

\* a module-level helper has been called and has not settled yet
HelperInFlight == ensureAllItems.active \/ authenticateAllResults.active

\* The registry: hooks are created one after the other, each initializes, and
\* the module-level helpers act on all of them. The helpers are awaited one at
\* a time, as in the router integration example (`await ensureAllInitialized();
\* await authenticateAll(identity);`). The operations of useActor() (reset,
\* setInterceptors, clearError) are those of Spec and take no part here.
NextAll ==
    \/ \E canisterId \in CanisterIds : createActorHook(canisterId)
    \/ \E h \in Hooks : \E r \in runs[h] : InitializeActorResolved(h, r)
    \/ \E h \in Hooks : \E r \in runs[h] : InitializeActorRejected(h, r)
    \/ ~HelperInFlight /\ EnsureAllInitializedCall
    \/ \E o \in EnsureAllInitializedReturn(ensureAllItems.items) : EnsureAllInitializedSettled(o)
    \/ \E identity \in Identities : \E filterCanisterIds \in Filters :
            ~HelperInFlight /\ AuthenticateAllCall(identity, filterCanisterIds)
    \/ \E h \in Hooks : \E c \in authCalls[h] : \E agent \in AgentOutcomes :
            AuthenticateResumed(h, c, agent)
    \/ AuthenticateAllSettled

SpecAll == ModuleLoaded /\ [][NextAll]_vars

\* Several hooks side by side, each used through its own useActor(): hooks are
\* created one after the other and every operation of a hook is called while
\* the other hooks are in any stage of their own life. One authenticate call
\* is in flight at a time; reset is called on a hook whose initialization has
\* finished, and on one of the hooks only.
NextHooks ==
    \/ \E h \in Hooks : \E r \in runs[h] : InitializeActorResolved(h, r)
    \/ \E h \in Hooks : \E r \in runs[h] : InitializeActorRejected(h, r)
    \/ \E h \in Hooks : \E identity \in Identities :
            (\A g \in Hooks : authCalls[g] = {}) /\ AuthenticateCall(h, identity)
    \/ \E h \in Hooks : \E c \in authCalls[h] : \E agent \in AgentOutcomes :
            AuthenticateResumed(h, c, agent)
    \/ \E h \in Hooks : \E interceptors \in InterceptorOptions : setInterceptors(h, interceptors)
    \/ \E h \in Hooks :
            (runs[h] = {} /\ \A g \in Hooks \ {h} : resets[g] = 0) /\ reset(h)
    \/ \E h \in Hooks : clearError(h)

\* the state after createActorHook has been called for two canisters
TwoHooks ==
    /\ nextHookId = 3
    /\ hookRegistry = <<"canisterA", "canisterB">>
    /\ _actor = [h \in {1, 2} |-> Undefined]
    /\ context = [h \in {1, 2} |-> InitializeActorBegin(InitialContext)]
    /\ initializationPromise = [h \in {1, 2} |-> Deferred(1)]
    /\ initializationResolve = [h \in {1, 2} |-> 1]
    /\ initializationReject = [h \in {1, 2} |-> 1]
    /\ promises = [h \in {1, 2} |-> (1 :> Pending)]
    /\ runs = [h \in {1, 2} |-> {1}]
    /\ runsStarted = [h \in {1, 2} |-> 1]
    /\ resets = [h \in {1, 2} |-> 0]
    /\ agentIdentity = [h \in {1, 2} |-> NoAgent]
    /\ authCalls = [h \in {1, 2} |-> {}]
    /\ waiters = [h \in {1, 2} |-> (1 :> 0)]
    /\ preResetRun = [h \in {1, 2} |-> 0]
    /\ ensureAllItems = NoCall
    /\ authenticateAllResults = NoCall
    /\ wrapped = NoWrappedCall

SpecHooks == TwoHooks /\ [][NextHooks]_vars

\* Calls of the methods of createInterceptorProxy(actor, interceptors), for
\* every interceptors value, argument list and behaviour of the method.
NextProxy ==
    \/ \E interceptors \in AllInterceptorOptions : \E methodName \in MethodNames :
       \E args \in ArgLists : \E outcome \in MethodOutcomes :
            WrappedCall(interceptors, methodName, Array(args), outcome)
    \/ WrappedCallResumed
    \/ WrappedCallReturned

SpecProxy == ModuleLoaded /\ [][NextProxy]_vars

\* A hook in use by a consumer: the hook initializes, is authenticated, given
\* interceptors and reset, while the consumer calls the methods of the actor
\* the hook exposes, one call at a time. One authenticate call is in flight at
\* a time.
NextCalls ==
    \/ \E h \in Hooks : \E r \in runs[h] : InitializeActorResolved(h, r)
    \/ \E h \in Hooks : \E r \in runs[h] : InitializeActorRejected(h, r)
    \/ \E h \in Hooks : \E identity \in Identities :
            authCalls[h] = {} /\ AuthenticateCall(h, identity)
    \/ \E h \in Hooks : \E c \in authCalls[h] : \E agent \in AgentOutcomes :
            AuthenticateResumed(h, c, agent)
    \/ \E h \in Hooks : \E interceptors \in InterceptorOptions : setInterceptors(h, interceptors)
    \/ \E h \in Hooks : reset(h)
    \/ \E h \in Hooks : \E methodName \in MethodNames : \E args \in ArgLists :
       \E outcome \in MethodOutcomes : ActorCall(h, methodName, Array(args), outcome)
    \/ WrappedCallResumed
    \/ WrappedCallReturned

SpecCalls == Init /\ [][NextCalls]_vars

\* The registry over the life of the hooks: hooks are created one after the
\* other, initialize, have their error cleared and are reset (a hook is reset
\* once its initialization has finished).
NextRegistry ==
    \/ \E canisterId \in CanisterIds : createActorHook(canisterId)
    \/ \E h \in Hooks : \E r \in runs[h] : InitializeActorResolved(h, r)
    \/ \E h \in Hooks : \E r \in runs[h] : InitializeActorRejected(h, r)
    \/ \E h \in Hooks : runs[h] = {} /\ reset(h)
    \/ \E h \in Hooks : clearError(h)

SpecRegistry == ModuleLoaded /\ [][NextRegistry]_vars

\* ------------------------------------------------------------------ claims
\* the promise made for the current lifetime segment (creation or last reset)
SegmentPromise(h) == Deferred(resets[h] + 1)

\* no call starts a construction (one initializeActor invocation per lifetime
\* segment), and while the status is "initializing" every ensureInitialized
\* call is handed the one pending promise of the segment
SingleInitState ==
    \A h \in Hooks :
        /\ runsStarted[h] = resets[h] + 1
        /\ context[h].status = "initializing" => ensureInitialized(h) = SegmentPromise(h)

\* a promise, once settled, keeps its outcome
SettledOnce ==
    \A h \in Hooks : \A id \in DOMAIN promises[h] :
        promises[h][id].st # "pending" => promises'[h][id] = promises[h][id]

\* C1 (P1, single init): ensureInitialized calls start no construction (one
\* initializeActor invocation per lifetime segment), every call issued while the
\* status is "initializing" is handed the one pending promise of that segment,
\* and a promise, once settled, keeps its outcome: all callers of one
\* Initializing period receive the same actor or the same error.
SingleInit == []SingleInitState /\ [][SettledOnce]_vars

\* two ensureInitialized calls of one Initializing period (a direct one and the
\* one authenticate makes) await the same promise, which has been fulfilled
SingleInitWitness ==
    \E h \in Hooks : \E id \in DOMAIN promises[h] :
        /\ waiters[h][id] > 0
        /\ \E c \in authCalls[h] : c.awaited.id = id
        /\ promises[h][id].st = "fulfilled"

\* getActor(): the actor of the store snapshot
getActor(h) == context[h].actor
\* isAuthenticated()
isAuthenticated(h) == context[h].isAuthenticated

\* C2: in every reachable state, authenticated implies status "success".
AuthenticatedImpliesSuccess ==
    \A h \in Hooks : isAuthenticated(h) => context[h].status = "success"

\* C3: in every reachable state, status "success" implies that getActor()
\* returns an actor.
SuccessImpliesActor ==
    \A h \in Hooks : context[h].status = "success" => getActor(h) # Undefined

\* status "success" after a reset, with interceptors installed on the new actor
SuccessImpliesActorWitness ==
    \E h \in Hooks :
        /\ context[h].status = "success"
        /\ resets[h] > 0
        /\ Len(getActor(h).layers) > 0

\* C4: at most one initializeActor invocation is in flight per hook at any time.
AtMostOneRunInFlight ==
    \A h \in Hooks : Cardinality(runs[h]) <= 1

\* C5: the callers that obtained a promise from ensureInitialized receive the
\* outcome of the initialization, also across a reset: once no initializeActor
\* invocation is in flight any more, no caller still awaits a pending promise.
PreResetCallersReceiveOutcome ==
    \A h \in Hooks :
        runs[h] = {} =>
            \A id \in DOMAIN promises[h] :
                waiters[h][id] > 0 => promises[h][id].st # "pending"

\* C6: a reset() step leaves the hook with no actor, status "initializing",
\* not authenticated, no error, a new pending initializationPromise that the
\* resolvers settle, and one more initializeActor invocation in flight; the
\* registry is unchanged.
ResetStep(h) == resets'[h] = resets[h] + 1
AfterReset ==
    [][\A h \in Hooks : ResetStep(h) =>
        /\ _actor'[h] = Undefined
        /\ getActor(h)' = Undefined
        /\ context'[h].status = "initializing"
        /\ ~isAuthenticated(h)'
        /\ context'[h].error = NoError
        /\ initializationPromise'[h].id \notin DOMAIN promises[h]
        /\ StateOf(h, initializationPromise[h])' = Pending
        /\ initializationResolve'[h] = initializationPromise'[h].id
        /\ initializationReject'[h] = initializationPromise'[h].id
        /\ Cardinality(runs'[h] \ runs[h]) = 1
        /\ runs[h] \subseteq runs'[h]
        /\ hookRegistry' = hookRegistry
        /\ nextHookId' = nextHookId]_vars

\* a reset has just acted on a hook that was authenticated: the state it leaves
AfterResetWitness ==
    \E h \in Hooks :
        /\ resets[h] > 0
        /\ context[h].status = "initializing"
        /\ _actor[h] = Undefined
        /\ Cardinality(runs[h]) = 1
        /\ agentIdentity[h] = NoAgent
        /\ \E c \in authCalls[h] : c.awaited = Settled(Fulfilled(Undefined))

\* an initializeActor invocation of h completes successfully in this step
InitializationSucceeds(h) ==
    /\ runs'[h] # runs[h]
    /\ runs'[h] \subseteq runs[h]
    /\ context'[h].status = "success"

\* C7 (P3, reset clears): when an initialization completes successfully after a
\* reset(), the hook is not authenticated, has no error, and its actor is a
\* reference other than the one getActor() returned when reset() was called:
\* it was made by another initializeActor invocation.
ResetClears ==
    [][\A h \in Hooks : (resets[h] > 0 /\ InitializationSucceeds(h)) =>
        /\ ~isAuthenticated(h)'
        /\ context'[h].error = NoError
        /\ getActor(h)' # Undefined
        /\ getActor(h)'.run # preResetRun[h]
        /\ _actor'[h].run # preResetRun[h]]_vars

\* reinitialized after the reset of a hook that had an actor
ResetClearsWitness ==
    \E h \in Hooks :
        /\ resets[h] > 0
        /\ runs[h] = {}
        /\ context[h].status = "success"
        /\ ~isAuthenticated(h)
        /\ _actor[h] = getActor(h)
        /\ preResetRun[h] > 0

\* C8: authenticate attaches the identity only after a successful
\* initialization, and an authenticate issued while the status is
\* "initializing" (it awaits the pending initializationPromise) does not fail
\* with "No actor found".
AuthenticateWaitsForInitialization ==
    [][\A h \in Hooks : \A c \in authCalls[h] : \A agent \in AgentOutcomes :
        AuthenticateResumed(h, c, agent) =>
            /\ AuthenticateError(h, c, agent) = NoError =>
                    /\ StateOf(h, c.awaited).st = "fulfilled"
                    /\ _actor[h] # Undefined
            /\ c.awaited.id # 0 =>
                    AuthenticateError(h, c, agent).kind # "No actor found"]_vars

\* C9 (P2, authenticated implies ready): when an authenticate call completes
\* successfully, the hook then has status "success" and is authenticated.
AuthenticatedImpliesReady ==
    [][\A h \in Hooks : \A c \in authCalls[h] : \A agent \in AgentOutcomes :
        (AuthenticateResumed(h, c, agent) /\ AuthenticateReturn(h, c, agent).st = "fulfilled") =>
            /\ context'[h].status = "success"
            /\ isAuthenticated(h)']_vars

\* the step records the failure e of call c: status "error", the error stored,
\* and the promise authenticate returned rejected with that same error
FailureRecorded(h, c, agent, e) ==
    /\ context'[h].status = "error"
    /\ context'[h].error = e
    /\ AuthenticateReturn(h, c, agent) = Rejected(e)

StatusUnchangedByAuthenticate ==
    [][\A h \in Hooks : \A c \in authCalls[h] : \A agent \in AgentOutcomes :
        AuthenticateResumed(h, c, agent) =>
            context'[h].status = context[h].status]_vars

\* C12: the error of the store is reserved for initialization failures: an
\* authenticate call never records an error (it leaves the error as it is or
\* clears it).
AuthenticateNeverSetsError ==
    [][\A h \in Hooks : \A c \in authCalls[h] : \A agent \in AgentOutcomes :
        AuthenticateResumed(h, c, agent) =>
            context'[h].error \in {context[h].error, NoError}]_vars

\* C13: authenticate never recreates or replaces the actor: every step of an
\* authenticate call (the call up to its await, its resumption) leaves getActor()
\* and _actor as they are, so installed interceptors stay.
AuthenticateKeepsActor ==
    [][\A h \in Hooks : authCalls'[h] # authCalls[h] =>
        /\ getActor(h)' = getActor(h)
        /\ _actor'[h] = _actor[h]]_vars

\* an authenticated hook whose actor carries interceptors
AuthenticateKeepsActorWitness ==
    \E h \in Hooks :
        /\ isAuthenticated(h)
        /\ agentIdentity[h] \in Identities
        /\ Len(getActor(h).layers) > 0
        /\ authCalls[h] = {}

\* C14: setInterceptors on a hook that has an actor replaces the exposed actor
\* by the proxy over _actor and leaves status, isAuthenticated, error and
\* _actor unchanged.
SetInterceptorsFrame ==
    [][\A h \in Hooks : \A interceptors \in InterceptorOptions :
        (_actor[h] # Undefined /\ setInterceptors(h, interceptors)) =>
            /\ getActor(h)' = [_actor[h] EXCEPT !.layers = <<interceptors>>]
            /\ context'[h].status = context[h].status
            /\ isAuthenticated(h)' = isAuthenticated(h)
            /\ context'[h].error = context[h].error
            /\ _actor'[h] = _actor[h]]_vars

\* interceptors installed on an authenticated hook whose status is "error"
SetInterceptorsFrameWitness ==
    \E h \in Hooks :
        /\ Len(getActor(h).layers) > 0
        /\ isAuthenticated(h)
        /\ context[h].status = "error"
        /\ context[h].error # NoError

ClearErrorFrame ==
    [][\A h \in Hooks : clearError(h) =>
        /\ context'[h].error = NoError
        /\ context'[h].status = context[h].status
        /\ isAuthenticated(h)' = isAuthenticated(h)
        /\ getActor(h)' = getActor(h)
        /\ _actor'[h] = _actor[h]
        /\ initializationPromise'[h] = initializationPromise[h]
        /\ promises'[h] = promises[h]]_vars

\* the error recorded by a setInterceptors call without an actor has been
\* cleared while the initialization is still in flight
ClearErrorFrameWitness ==
    \E h \in Hooks :
        /\ context[h].status = "error"
        /\ context[h].error = NoError
        /\ _actor[h] = Undefined
        /\ runs[h] # {}

\* C17: a failure of the create step is captured: the step in which an
\* initializeActor invocation fails sets the status to "error", records the
\* error, leaves the initializationPromise rejected with it (the promise the
\* rejecter belongs to is settled), and the hook stays registered and observable.
InitializationFailureCaptured ==
    [][\A h \in Hooks : \A r \in runs[h] :
        InitializeActorRejected(h, r) =>
            /\ context'[h].status = "error"
            /\ context'[h].error = InitError(r)
            /\ StateOf(h, initializationPromise[h])' = Rejected(InitError(r))
            /\ promises'[h][initializationReject[h]].st # "pending"
            /\ ensureInitialized(h)' = Settled(Rejected(InitError(r)))
            /\ h \in DOMAIN hookRegistry'
            /\ getActor(h)' = getActor(h)]_vars

\* the initialization started by a reset has failed
InitializationFailureCapturedWitness ==
    \E h \in Hooks :
        /\ resets[h] > 0
        /\ runs[h] = {}
        /\ context[h].status = "error"
        /\ context[h].error = InitError(runsStarted[h])
        /\ StateOf(h, initializationPromise[h]).st = "rejected"

\* C18: ensureInitialized decides on the status at call time: in status
\* "error" it rejects with the recorded error, or with "Initialization failed"
\* when none is recorded; in status "success" it returns the current actor as
\* an already fulfilled promise; in status "initializing" it returns the
\* initializationPromise, which is pending.
EnsureInitializedDecision ==
    \A h \in Hooks :
        /\ context[h].status = "error" =>
                /\ context[h].error # NoError =>
                        ensureInitialized(h) = Settled(Rejected(context[h].error))
                /\ context[h].error = NoError =>
                        ensureInitialized(h) =
                            Settled(Rejected([kind |-> "Initialization failed", run |-> 0]))
        /\ context[h].status = "success" =>
                ensureInitialized(h) = Settled(Fulfilled(getActor(h)))
        /\ context[h].status = "initializing" =>
                /\ ensureInitialized(h) = initializationPromise[h]
                /\ ensureInitialized(h).id # 0
                /\ StateOf(h, ensureInitialized(h)) = Pending

\* status "error" with the error cleared: the generic rejection
EnsureInitializedDecisionWitness ==
    \E h \in Hooks :
        /\ context[h].status = "error"
        /\ context[h].error = NoError
        /\ StateOf(h, ensureInitialized(h)).err.kind = "Initialization failed"
        /\ StateOf(h, initializationPromise[h]).st = "rejected"

\* the hooks whose authenticate call failed in an authenticateAll call
Failed(results) ==
    {h \in DOMAIN results.items : results.items[h].outcome.st = "rejected"}

\* C19: ensureAllInitialized awaits every hook registered when it is called;
\* it resolves only when each of them has finished its initialization
\* successfully; as soon as one of the awaited promises is rejected, the only
\* outcome is a rejection with the reason of a rejected item; neither the call
\* nor its settling authenticates a hook.
EnsureAllInitializedWaits ==
    [][/\ EnsureAllInitializedCall =>
            /\ DOMAIN ensureAllItems'.items = DOMAIN hookRegistry
            /\ UNCHANGED <<context, agentIdentity, authCalls>>
       /\ \A o \in EnsureAllInitializedReturn(ensureAllItems.items) :
            EnsureAllInitializedSettled(o) =>
                LET items == ensureAllItems.items
                    rejected == {h \in DOMAIN items : StateOf(h, items[h]).st = "rejected"}
                IN
                /\ o.st = "fulfilled" =>
                        \A h \in DOMAIN items :
                            /\ context[h].status = "success"
                            /\ getActor(h) # Undefined
                            /\ runs[h] = {}
                /\ rejected # {} =>
                        /\ o.st = "rejected"
                        /\ \E h \in rejected : o.err = StateOf(h, items[h]).err
                /\ UNCHANGED <<context, agentIdentity, authCalls>>]_vars

\* an ensureAllInitialized call, made while a hook was initializing, awaits
\* two hooks that have both been initialized: it is about to resolve
EnsureAllInitializedWaitsWitness ==
    /\ ensureAllItems.active
    /\ Cardinality(DOMAIN ensureAllItems.items) >= 2
    /\ \E h \in DOMAIN ensureAllItems.items : ensureAllItems.items[h].id # 0
    /\ EnsureAllInitializedReturn(ensureAllItems.items) = {Fulfilled(Undefined)}

\* C20 (P8, bulk auth partial failure): authenticateAll calls authenticate on
\* every targeted hook and settles only when all of these calls have completed;
\* it rejects exactly when some call failed, with one error giving the number
\* of failed hooks and their reasons; every hook whose call succeeded is
\* authenticated with the identity when authenticateAll settles, and stays so.
BulkAuthPartialFailure ==
    [][/\ \A identity \in Identities : \A filterCanisterIds \in Filters :
            AuthenticateAllCall(identity, filterCanisterIds) =>
                /\ DOMAIN authenticateAllResults'.items = Targeted(filterCanisterIds)
                /\ \A h \in Targeted(filterCanisterIds) :
                        authenticateAllResults'.items[h].call \in authCalls'[h]
       /\ AuthenticateAllSettled =>
            LET results == authenticateAllResults IN
            /\ \A h \in DOMAIN results.items :
                    /\ results.items[h].outcome # Pending
                    /\ results.items[h].call \notin authCalls[h]
            /\ Failed(results) = {} => AuthenticateAllReturn(results) = Fulfilled(Undefined)
            /\ Failed(results) # {} =>
                    AuthenticateAllReturn(results) =
                        Rejected([kind |-> "authenticateAll failed",
                                  count |-> Cardinality(Failed(results)),
                                  reasons |-> [h \in Failed(results) |->
                                                    results.items[h].outcome.err]])
            /\ \A h \in DOMAIN results.items \ Failed(results) :
                    /\ isAuthenticated(h)
                    /\ isAuthenticated(h)'
                    /\ agentIdentity'[h] = results.items[h].call.identity]_vars

\* every authenticate call of an authenticateAll has completed, one failed and
\* another succeeded: authenticateAll is about to reject
BulkAuthPartialFailureWitness ==
    /\ authenticateAllResults.active
    /\ \A h \in DOMAIN authenticateAllResults.items :
            authenticateAllResults.items[h].outcome # Pending
    /\ Failed(authenticateAllResults) # {}
    /\ \E h \in DOMAIN authenticateAllResults.items \ Failed(authenticateAllResults) :
            isAuthenticated(h)

\* C21 (P9, filtered bulk auth): authenticateAll(identity, filter) calls
\* authenticate on exactly the registered hooks whose canisterId is in the
\* filter (on all of them when no filter is given), and no step changes the
\* state, the authenticated flag or the agent identity of a hook outside the
\* selection of the call in flight, apart from the hook's own initialization.
FilteredBulkAuth ==
    [][/\ \A identity \in Identities : \A filterCanisterIds \in Filters :
            AuthenticateAllCall(identity, filterCanisterIds) =>
                /\ \A h \in Hooks :
                        authCalls'[h] # authCalls[h] <=>
                            \/ filterCanisterIds.absent
                            \/ hookRegistry[h] \in filterCanisterIds.ids
                /\ \A h \in Hooks :
                        authCalls'[h] \ authCalls[h] \subseteq
                            {c \in authCalls'[h] : c.identity = identity}
                /\ context' = context
                /\ agentIdentity' = agentIdentity
       /\ \A h \in Hooks :
            (/\ runs'[h] = runs[h]
             /\ \/ ~authenticateAllResults.active
                \/ h \notin DOMAIN authenticateAllResults.items) =>
                /\ context'[h] = context[h]
                /\ agentIdentity'[h] = agentIdentity[h]
                /\ authCalls'[h] \subseteq authCalls[h] \/ authenticateAllResults'.active]_vars

\* authenticateAll(identity, ["canisterB"]) has settled with hooks for both
\* canisters registered and initialized: the hook of canisterB is
\* authenticated, the hook of canisterA is not
FilteredBulkAuthWitness ==
    /\ ~authenticateAllResults.active
    /\ \E hA, hB \in Hooks :
        /\ hookRegistry[hA] = "canisterA"
        /\ hookRegistry[hB] = "canisterB"
        /\ context[hA].status = "success"
        /\ ~isAuthenticated(hA)
        /\ agentIdentity[hA] = Anonymous
        /\ isAuthenticated(hB)
        /\ agentIdentity[hB] \in Identities

\* C22: when authenticateAll settles, it rejects if and only if the
\* authenticate call of at least one targeted hook was rejected (such a hook
\* is left with status "error"); the count in the aggregate error is the number
\* of these hooks and there is one reason per failed hook; otherwise it
\* resolves, and every targeted hook is then authenticated with the identity.
BulkAuthRejectsIffFailed ==
    [][AuthenticateAllSettled =>
        LET results == authenticateAllResults
            ret == AuthenticateAllReturn(results)
            rejected == {h \in DOMAIN results.items : context[h].status = "error"}
        IN
        /\ \A h \in DOMAIN results.items :
                results.items[h].outcome.st = "rejected" <=> h \in rejected
        /\ ret.st = "rejected" <=> rejected # {}
        /\ ret.st = "rejected" =>
                /\ ret.err.count = Cardinality(rejected)
                /\ DOMAIN ret.err.reasons = rejected
                /\ \A h \in rejected : ret.err.reasons[h] = context[h].error
        /\ ret.st = "fulfilled" =>
                \A h \in DOMAIN results.items :
                    /\ context[h].status = "success"
                    /\ isAuthenticated(h)
                    /\ agentIdentity[h] = results.items[h].call.identity]_vars

\* an authenticateAll over two hooks is about to reject with a failure count
\* of one: one authenticate call was rejected, the other hook is authenticated
BulkAuthRejectsIffFailedWitness ==
    /\ authenticateAllResults.active
    /\ Cardinality(DOMAIN authenticateAllResults.items) = 2
    /\ \A h \in DOMAIN authenticateAllResults.items :
            authenticateAllResults.items[h].outcome # Pending
    /\ AuthenticateAllReturn(authenticateAllResults).st = "rejected"
    /\ AuthenticateAllReturn(authenticateAllResults).err.count = 1

\* everything createActorHook keeps for hook h in its closure
Closure(h) ==
    <<_actor[h], context[h], agentIdentity[h], initializationPromise[h],
      initializationResolve[h], initializationReject[h], promises[h], runs[h],
      resets[h], authCalls[h]>>

\* the actor a hook holds and the one it exposes were created by that hook
OwnsActor(h) ==
    /\ _actor[h] # Undefined => _actor[h].hook = h
    /\ getActor(h) # Undefined => getActor(h).hook = h

\* C23: hooks are independent. Each hook owns the actor (and with it the
\* agent) it holds and exposes, no two hooks hold or expose the same actor, and
\* every step (a hook's initialization settling, authenticate, setInterceptors,
\* reset, clearError) changes the closure state of at most one hook, so that
\* status, isAuthenticated, error and actor of all other hooks are unchanged.
HooksIndependent ==
    /\ [](\A h \in Hooks :
            /\ OwnsActor(h)
            /\ \A g \in Hooks \ {h} :
                /\ _actor[h] # Undefined => _actor[h] # _actor[g]
                /\ getActor(h) # Undefined => getActor(h) # getActor(g))
    /\ [][Cardinality({h \in Hooks : Closure(h)' # Closure(h)}) <= 1]_vars

\* one hook has been reset and is initializing again while the other hook is
\* authenticated and exposes an actor with interceptors
HooksIndependentWitness ==
    \E h \in Hooks : \E g \in Hooks \ {h} :
        /\ resets[h] = 1
        /\ context[h].status = "initializing"
        /\ getActor(h) = Undefined
        /\ context[g].status = "success"
        /\ isAuthenticated(g)
        /\ agentIdentity[g] \in Identities
        /\ Len(getActor(g).layers) > 0

\* every initializeActor invocation that has begun finishes, leaving the status
\* "success" or "error"
InitializationTerminates ==
    \A r \in RunIds :
        (r \in runs[TheHook]) ~>
            (r \notin runs[TheHook] /\ context[TheHook].status \in {"success", "error"})

\* every authenticate call suspended on a promise of the hook completes
AuthenticateTerminates ==
    \A c \in DeferredCalls :
        (c \in authCalls[TheHook]) ~> (c \notin authCalls[TheHook])

\* C24: under fairness, every initializeActor invocation that has begun
\* finishes and leaves the status "success" or "error", and every authenticate
\* call suspended on the initialization promise eventually resolves or
\* rejects, whatever is interleaved.
OperationsTerminate ==
    /\ InitializationTerminates
    /\ AuthenticateTerminates

\* the callbacks an interceptors value configures
Configured(interceptors) ==
    {fn \in {"onRequest", "onResponse", "onRequestError", "onResponseError"} :
        interceptors[fn] # "absent"}

\* the members of the actor that are not methods read through the proxy as on
\* the actor itself
PropertiesPassThrough(proxy) ==
    \A prop \in DOMAIN Members \ MethodNames : ProxyGet(proxy, prop) = Members[prop]

\* C25 as stated (P4, interceptor transparency): wrapping with no interceptor
\* configured returns the identical reference; wrapping with at least one
\* interceptor returns a distinct reference whose non-method properties read
\* equal to the actor's.
InterceptorTransparency ==
    wrapped.pc # "idle" =>
        /\ Configured(wrapped.interceptors) = {} => wrapped.proxy = TargetActor
        /\ Configured(wrapped.interceptors) # {} =>
                /\ wrapped.proxy # TargetActor
                /\ PropertiesPassThrough(wrapped.proxy)

\* C25 (amended): wrapping with no interceptors value (undefined) returns the
\* identical reference; wrapping with an interceptors object, whether or not it
\* configures a callback, returns a distinct reference, one proxy layer over
\* the actor, whose non-method properties read equal to the actor's.
InterceptorTransparencyAmended ==
    wrapped.pc # "idle" =>
        /\ ~wrapped.interceptors.supplied => wrapped.proxy = TargetActor
        /\ wrapped.interceptors.supplied =>
                /\ wrapped.proxy # TargetActor
                /\ wrapped.proxy.layers = <<wrapped.interceptors>>
                /\ PropertiesPassThrough(wrapped.proxy)

\* a method has been called through the proxy made for an interceptors object
\* that configures no callback
InterceptorTransparencyWitness ==
    /\ wrapped.pc = "settled"
    /\ wrapped.interceptors.supplied
    /\ Configured(wrapped.interceptors) = {}
    /\ wrapped.proxy # TargetActor
    /\ PropertiesPassThrough(wrapped.proxy)

\* C26 (P5, request interceptor): for every call of a wrapped method with
\* onRequest configured, onRequest is invoked first, with {methodName, args},
\* and the method of the actor is invoked exactly once, with exactly the
\* argument list onRequest returned; echo then returns the first argument of
\* that list (echo(5) with the doubling onRequest returns 10).
RequestInterceptorApplied ==
    (wrapped.pc # "idle" /\ wrapped.interceptors.onRequest # "absent") =>
        LET data == [methodName |-> wrapped.methodName, args |-> wrapped.args]
            returned == OnRequestHandler(data)
        IN
        /\ wrapped.invoked[1] = [fn |-> "onRequest", data |-> data]
        /\ {i \in DOMAIN wrapped.invoked : wrapped.invoked[i].fn = wrapped.methodName} = {2}
        /\ wrapped.invoked[2].data = returned.items
        /\ (/\ wrapped.pc = "settled"
            /\ wrapped.outcome = "returns"
            /\ wrapped.interceptors.onResponse = "absent") =>
                wrapped.result = Resolves(Echo(returned.items))

\* the entry of the actor's method in the record of a call, and the response
\* the method gave for the arguments it was invoked with
MethodEntry(w) == CHOOSE i \in DOMAIN w.invoked : w.invoked[i].fn = w.methodName
UnderlyingResponse(w) == Echo(w.invoked[MethodEntry(w)].data)

\* C27 (P6, response interceptor): when the method of the actor succeeds and
\* onResponse is configured, onResponse is invoked with the response and the
\* caller of the wrapped method receives exactly what onResponse returned (the
\* value of the promise, if it returned one); when onResponse is not
\* configured the caller receives the response of the method unchanged.
ResponseInterceptorApplied ==
    (wrapped.pc = "settled" /\ wrapped.outcome = "returns") =>
        LET last == wrapped.invoked[Len(wrapped.invoked)] IN
        /\ (wrapped.interceptors.supplied /\ wrapped.interceptors.onResponse # "absent") =>
                /\ last.fn = "onResponse"
                /\ last.data.response = UnderlyingResponse(wrapped)
                /\ wrapped.result =
                        Resolves(Await(Return(wrapped.interceptors.onResponse,
                                              OnResponseHandler(last.data))))
                /\ wrapped.result.value.by = "onResponse"
        /\ wrapped.interceptors.onResponse = "absent" =>
                /\ last.fn = wrapped.methodName
                /\ wrapped.result = Resolves(UnderlyingResponse(wrapped))

\* echo(5) has been called through a proxy with onResponse: the caller
\* receives the response 5 as marked by onResponse
ResponseInterceptorAppliedWitness ==
    /\ wrapped.pc = "settled"
    /\ wrapped.outcome = "returns"
    /\ wrapped.interceptors.onResponse = "sync"
    /\ wrapped.interceptors.onRequest = "absent"
    /\ wrapped.args = Array(<<5>>)
    /\ wrapped.result = Resolves([type |-> "object", by |-> "onResponse", of |-> Number(5)])

\* the error callback that matches a failure of the method
Matching(outcome) == IF outcome = "TypeError" THEN "onRequestError" ELSE "onResponseError"

\* what the matching error callback returns for the failure of call w
Replacement(w) ==
    LET data == [methodName |-> w.methodName, args |-> w.requestArgs,
                 error |-> ErrorObject(w.outcome)] IN
    IF Matching(w.outcome) = "onRequestError"
    THEN Return(w.interceptors.onRequestError, OnRequestErrorHandler(data))
    ELSE Return(w.interceptors.onResponseError, OnResponseErrorHandler(data))

ErrorCallbacksInvoked(w) ==
    {i \in DOMAIN w.invoked : w.invoked[i].fn \in {"onRequestError", "onResponseError"}}

\* C29: on a failed wrapped call the error is classified by its type:
\* a TypeError goes to onRequestError, any other failure to onResponseError.
\* The matching callback, if configured, is invoked exactly once, with
\* {methodName, args, error}; the other callback is never invoked for that
\* call, and no error callback is invoked for a call that succeeds.
OneErrorCallbackConsulted ==
    wrapped.pc = "settled" =>
        LET invoked == ErrorCallbacksInvoked(wrapped) IN
        /\ wrapped.outcome = "returns" => invoked = {}
        /\ wrapped.outcome # "returns" =>
            /\ \A i \in invoked :
                    /\ wrapped.invoked[i].fn = Matching(wrapped.outcome)
                    /\ wrapped.invoked[i].data.error = ErrorObject(wrapped.outcome)
                    /\ wrapped.invoked[i].data.methodName = wrapped.methodName
            /\ Cardinality(invoked) =
                    IF /\ wrapped.interceptors.supplied
                       /\ wrapped.interceptors[Matching(wrapped.outcome)] # "absent"
                    THEN 1 ELSE 0

\* a method has failed with a TypeError in a call through a proxy that
\* configures both error callbacks: only onRequestError has been invoked
OneErrorCallbackConsultedWitness ==
    /\ wrapped.pc = "settled"
    /\ wrapped.outcome = "TypeError"
    /\ wrapped.interceptors.onRequestError # "absent"
    /\ wrapped.interceptors.onResponseError # "absent"
    /\ Cardinality(ErrorCallbacksInvoked(wrapped)) = 1
    /\ wrapped.invoked[Len(wrapped.invoked)].fn = "onRequestError"

\* the same interceptors with every callback returning its value directly
SyncKind(kind) == IF kind = "async" THEN "sync" ELSE kind
Synchronous(interceptors) ==
    [interceptors EXCEPT !.onRequest = SyncKind(@), !.onResponse = SyncKind(@),
                         !.onRequestError = SyncKind(@), !.onResponseError = SyncKind(@)]

\* C30: callbacks may return a value or a promise of it and the wrapper awaits
\* either: a call through a proxy dispatches the same arguments to the method,
\* and settles with the same value or the same rejection, as the call through
\* the proxy whose callbacks return the same values synchronously.
AsyncCallbacksAwaited ==
    (wrapped.pc # "idle" /\ wrapped.interceptors.supplied) =>
        LET sync == Synchronous(wrapped.interceptors)
            syncArgs == RequestArgs(sync, wrapped.methodName, wrapped.args)
            settled == Method(wrapped.outcome, ArgumentsList(syncArgs))
        IN
        /\ wrapped.invoked[MethodEntry(wrapped)].data = ArgumentsList(syncArgs)
        /\ wrapped.pc = "settled" =>
                wrapped.result =
                    IF settled.st = "fulfilled"
                    THEN AfterResponse(sync, wrapped.methodName, syncArgs, settled.value)
                    ELSE AfterError(sync, wrapped.methodName, syncArgs, settled.value)

\* C31: no step of a call of a method of the exposed actor, whether or not the
\* call fails and whether or not error callbacks are configured, changes the
\* status, the error, the authenticated flag or the actor of the hook.
CallsLeaveHookAlone ==
    [][wrapped' # wrapped => UNCHANGED <<context, _actor, agentIdentity>>]_vars

\* a call through the proxy of an initialized hook has failed and its error
\* callback has been consulted; the hook still has status "success" and no error
CallsLeaveHookAloneWitness ==
    \E h \in Hooks :
        /\ wrapped.pc = "settled"
        /\ wrapped.result.st = "rejected"
        /\ wrapped.proxy = context[h].actor
        /\ ErrorCallbacksInvoked(wrapped) # {}
        /\ context[h].status = "success"
        /\ context[h].error = NoError

\* C32: the registry is append-only and keyed by fresh identifiers. Its keys
\* are the identifiers handed out so far, one per hook created; a step that
\* changes the registry is a createActorHook call, which adds exactly one
\* entry, under the identifier nextHookId that no entry has used, and keeps
\* every other entry under its key; no other step (reset included) changes it.
RegistryAppendOnly ==
    /\ [](/\ DOMAIN hookRegistry = 1 .. (nextHookId - 1)
          /\ DOMAIN context = DOMAIN hookRegistry)
    /\ [][/\ nextHookId' >= nextHookId
          /\ (hookRegistry' # hookRegistry \/ DOMAIN context' # DOMAIN context) =>
                /\ nextHookId \notin DOMAIN hookRegistry
                /\ nextHookId' = nextHookId + 1
                /\ DOMAIN hookRegistry' = DOMAIN hookRegistry \cup {nextHookId}
                /\ DOMAIN context' = DOMAIN hookRegistry'
                /\ \A h \in DOMAIN hookRegistry : hookRegistry'[h] = hookRegistry[h]]_vars

\* two hooks are registered and one of them has been reset
RegistryAppendOnlyWitness ==
    /\ Cardinality(DOMAIN hookRegistry) = 2
    /\ nextHookId = 3
    /\ \E h \in Hooks : resets[h] = 1 /\ context[h].status = "success"

\* the initializeActor invocation that the last reset() of hook h started
RunOfLastReset(h) == resets[h] + 1

\* C33: after a reset(), the actor of the hook (_actor and getActor()) and the
\* actor that the promise handed to the ensureInitialized callers of the new
\* segment is fulfilled with were made by the initializeActor invocation that
\* this reset started, never by an invocation started before it.
SupersededRunsDiscarded ==
    \A h \in Hooks : resets[h] > 0 =>
        /\ _actor[h] # Undefined => _actor[h].run = RunOfLastReset(h)
        /\ getActor(h) # Undefined => getActor(h).run = RunOfLastReset(h)
        /\ StateOf(h, SegmentPromise(h)).st = "fulfilled" =>
                StateOf(h, SegmentPromise(h)).actor.run = RunOfLastReset(h)

\* the actor a proxy was made over
Unproxied(actor) == [actor EXCEPT !.layers = << >>]

\* C34: interceptor layers never accumulate. The actor a hook exposes is the
\* raw actor or one proxy layer over the raw actor, and a setInterceptors call
\* on an initialized hook leaves exactly the interceptors of that call on it.
SingleInterceptorLayer ==
    /\ [](\A h \in Hooks : getActor(h) # Undefined =>
            /\ Len(getActor(h).layers) <= 1
            /\ Unproxied(getActor(h)) = _actor[h])
    /\ [][\A h \in Hooks : \A interceptors \in InterceptorOptions :
            (_actor[h] # Undefined /\ setInterceptors(h, interceptors)) =>
                /\ getActor(h)'.layers = <<interceptors>>
                /\ InterceptorsOf(getActor(h)') = interceptors
                /\ Unproxied(getActor(h)') = _actor[h]]_vars

\* setInterceptors has been called twice on one actor: a call made through the
\* proxy of the first interceptors is still in progress, and the hook exposes
\* one layer, with the interceptors of the second call
SingleInterceptorLayerWitness ==
    \E h \in Hooks :
        /\ wrapped.pc # "idle"
        /\ Len(wrapped.proxy.layers) = 1
        /\ Unproxied(wrapped.proxy) = _actor[h]
        /\ Len(getActor(h).layers) = 1
        /\ getActor(h).layers # wrapped.proxy.layers

\* the authenticate call awaits a promise that was rejected when it was handed out
AwaitsRejection(c) == c.awaited.id = 0 /\ c.awaited.settled.st = "rejected"

ErrorLeftOnlyByReset ==
    [][\A h \in Hooks :
        (context[h].status = "error" /\ context'[h].status # "error") => ResetStep(h)]_vars

\* C37: the authenticated flag changes from true to false only in a reset()
\* step.
AuthenticatedUntilReset ==
    [][\A h \in Hooks :
        (isAuthenticated(h) /\ ~isAuthenticated(h)') => ResetStep(h)]_vars

\* the authenticate calls that have attached their identity to the agent of the
\* current raw actor leave that identity on it: an agent made by
\* HttpAgent.create is anonymous
Attached(h) == agentIdentity[h] \in Identities

\* C38: whenever the hook is authenticated, it has a raw actor and the agent of
\* that actor carries the identity that an authenticate call has attached to
\* it; the agent of a newly created actor is anonymous and the flag is false.
AuthenticatedActorHasIdentity ==
    /\ [](\A h \in Hooks : isAuthenticated(h) => (_actor[h] # Undefined /\ Attached(h)))
    /\ [][\A h \in Hooks :
            /\ (_actor'[h] # _actor[h] /\ _actor'[h] # Undefined) =>
                    (agentIdentity'[h] = Anonymous /\ ~isAuthenticated(h)')
            /\ (agentIdentity'[h] # agentIdentity[h] /\ Attached(h)') =>
                    /\ _actor'[h] = _actor[h]
                    /\ isAuthenticated(h)'
                    /\ \E c \in authCalls[h] \ authCalls'[h] :
                            c.identity = agentIdentity'[h]]_vars

\* authenticated on the actor made after a reset, by a call made after the hook
\* had been authenticated on the earlier actor too
AuthenticatedActorHasIdentityWitness ==
    \E h \in Hooks :
        /\ isAuthenticated(h)
        /\ resets[h] > 0
        /\ runs[h] = {}
        /\ _actor[h].run = RunOfLastReset(h)
        /\ Attached(h)

\* C39: a failed authenticate (the step in which a call ends and an error is
\* recorded) leaves the actor getActor() returns, the raw actor, the identity
\* of its agent and the authenticated flag as they were.
FailedAuthenticateFrame ==
    [][\A h \in Hooks :
        (authCalls[h] \ authCalls'[h] # {} /\ context'[h].error # NoError) =>
            /\ getActor(h)' = getActor(h)
            /\ _actor'[h] = _actor[h]
            /\ isAuthenticated(h)' = isAuthenticated(h)
            /\ agentIdentity'[h] = agentIdentity[h]]_vars

\* an authenticate call has failed on an authenticated hook whose actor
\* carries interceptors: actor, identity and flag are still there
FailedAuthenticateFrameWitness ==
    \E h \in Hooks :
        /\ context[h].status = "error"
        /\ context[h].error.kind = "replaceIdentity failed"
        /\ isAuthenticated(h)
        /\ Attached(h)
        /\ Len(getActor(h).layers) = 1
        /\ authCalls[h] = {}

\* the interceptor callbacks a call has invoked
CallbacksInvoked(w) ==
    {k \in 1 .. Len(w.invoked) : w.invoked[k].fn \notin MethodNames}

\* C40: interceptors do not survive a reset. A reset() step leaves the hook
\* exposing no actor; when an initialization then succeeds, the exposed actor
\* is the raw actor that run made (no proxy layer, not the actor exposed when
\* reset() was called); the exposed actor gets a proxy layer only in a
\* setInterceptors step; and a call of a method of an exposed actor without
\* proxy layer invokes no interceptor callback.
InterceptorsDoNotSurviveReset ==
    /\ [](wrapped.pc # "idle" /\ wrapped.proxy.layers = << >> =>
            CallbacksInvoked(wrapped) = {})
    /\ [][\A h \in Hooks :
            /\ ResetStep(h) => getActor(h)' = Undefined
            /\ (resets[h] > 0 /\ InitializationSucceeds(h)) =>
                    /\ getActor(h)' = _actor'[h]
                    /\ getActor(h)'.layers = << >>
                    /\ getActor(h)'.run # preResetRun[h]
            /\ (getActor(h)' # getActor(h) /\ getActor(h)'.layers # << >>) =>
                    \E interceptors \in InterceptorOptions : setInterceptors(h, interceptors)
            /\ (wrapped.pc = "idle" /\ wrapped'.pc # "idle" /\ wrapped'.proxy.hook = h) =>
                    /\ wrapped'.proxy = getActor(h)
                    /\ wrapped'.interceptors = InterceptorsOf(getActor(h))]_vars

\* interceptors were installed before the reset (a call made through that proxy
\* is still in progress) and the hook, reinitialized, exposes the new actor
\* without proxy layer
InterceptorsDoNotSurviveResetWitness ==
    \E h \in Hooks :
        /\ resets[h] > 0
        /\ preResetRun[h] > 0
        /\ wrapped.pc # "idle"
        /\ wrapped.proxy.layers # << >>
        /\ wrapped.proxy.hook = h
        /\ wrapped.proxy.run = preResetRun[h]
        /\ context[h].status = "success"
        /\ getActor(h) = _actor[h]
        /\ getActor(h).run # preResetRun[h]

==========================================================================
